---- MODULE Spec2Model ----
(***************************************************************************)
(* A model of src/src/ImageSubtract.cc (ip_diffim): the footprint search   *)
(* getCollectionOfFootprintsForPsfMatching, the kernel fit                 *)
(* PsfMatchingFunctor::apply and the basis generator                       *)
(* generateDeltaFunctionKernelSet and the two overloads of                 *)
(* convolveAndSubtract.  Each routine is a small state machine of its own  *)
(* with its own specification (SpecFp, SpecApply, SpecDelta, SpecSubtract);*)
(* the variables of the other routines stay at their idle values.          *)
(***************************************************************************)
EXTENDS Integers, Sequences, FiniteSets, TLC

VARIABLES
    \* ---- getCollectionOfFootprintsForPsfMatching ----
    policy,            \* the parsed Policy (lines 581-592), read only
    scene,             \* the two masked images: sources, mask bits, widths
    detThreshold,      \* the local detThreshold, a rational <<num, den>>
    threshold,         \* the local Threshold object of the current pass
    footprintListIn,   \* footprints of the current detection pass
    footprintListOut,  \* clean (grown) footprints of the current pass
    nCleanFp,          \* the local nCleanFp
    fpIdx,             \* position of the iterator i in footprintListIn
    fpPc,              \* "while" | "for" | "done" | "idle"
    fpOutcome,         \* "none" | "returned" | "raised"
    nPasses,           \* detection passes run so far (DetectionSet built)
    \* ---- PsfMatchingFunctor ----
    basisList,         \* _basisList, fixed by the constructor
    kernel,            \* _kernel: [call, coef], call = 0 for the null pointer
    kernelError,       \* _kernelError
    background,        \* _background: [call, val]
    backgroundError,   \* _backgroundError
    \* ---- PsfMatchingFunctor::apply, the locals of the running call ----
    images,            \* [itc, itnc, var, conv]: arguments and convolvedImageList
    loc,               \* the xy_locators: [conv, itc, itnc, var], positions <<x, y>>
    M, B,              \* the normal equations (dead after line 312)
    row, col,          \* the loop variables of the pixel walk
    Soln,              \* the solution vector of the solver cascade
    Error2,            \* the diagonal of the matrix Error2
    kValues,           \* kValues, filled up to idx
    kErrValues,        \* kErrValues, filled up to idx
    idx,               \* idx of the translation loop
    tried,             \* the solver stages attempted by this call, in order
    apPc,              \* control position of apply
    apOutcome,         \* "none" | "returned" | "raised" (of the last call)
    callNo,            \* number of apply calls started on this instance
    \* ---- generateDeltaFunctionKernelSet ----
    width, height,     \* the unsigned int arguments
    signedWidth,       \* static_cast<int>(width)
    signedHeight,      \* static_cast<int>(height)
    dgRow, dgCol,      \* the loop variables row and col
    kernelBasisList,   \* the list being built
    dgPc,              \* "entry" | "rows" | "cols" | "done" | "off"
    dgOutcome,         \* "none" | "returned" | "raised"
    \* ---- convolveAndSubtract ----
    csOverload,        \* "MaskedImage" | "Image": the type of imageToConvolve
    imageToConvolve,   \* the argument T: [image, mask, variance] or [image]
    imageToNotConvolve,\* the argument I, a MaskedImage [image, mask, variance]
    convolutionKernel, \* the argument K: [basis, coef]
    csBackground,      \* the argument background: a scalar or a function
    invert,            \* the argument invert
    convolvedMaskedImage, \* the local that is returned: [image, mask, variance]
    convolveOut,       \* what math::convolve delivered, kept for reference
    imagesAtEntry,     \* the two image arguments as they were at the call
    csPc               \* "entry" | "convolved" | "background" | "subtracted"
                       \* | "inverted" | "done" | "off"

fpVars == <<policy, scene, detThreshold, threshold, footprintListIn, footprintListOut,
            nCleanFp, fpIdx, fpPc, fpOutcome, nPasses>>

apVars == <<basisList, kernel, kernelError, background, backgroundError,
            images, loc, M, B, row, col, Soln, Error2, kValues, kErrValues,
            idx, tried, apPc, apOutcome, callNo>>

dgVars == <<width, height, signedWidth, signedHeight, dgRow, dgCol,
            kernelBasisList, dgPc, dgOutcome>>

csVars == <<csOverload, imageToConvolve, imageToNotConvolve, convolutionKernel,
            csBackground, invert, convolvedMaskedImage, convolveOut,
            imagesAtEntry, csPc>>

vars == <<fpVars, apVars, dgVars, csVars>>

(***************************************************************************)
(* Bounds of the model.                                                    *)
(***************************************************************************)
\* A run of the threshold loop is cut after this many detection passes.
MaxPasses == 4
\* Width in pixels of the (one-dimensional) image to convolve.
ImgW == 9
\* Width and height of the images handed to apply.
ImCols == 3
ImRows == 2
\* Number of apply calls made on one functor instance.
MaxCalls == 2
\* Bits of an unsigned int and of an int, scaled down from 32.
IntBits == 3

(***************************************************************************)
(* Rationals <<num, den>> with den > 0 stand for the doubles of the        *)
(* Policy; every value used is a small dyadic number, exact in a double.   *)
(***************************************************************************)
RatGT(a, b) == a[1] * b[2] > b[1] * a[2]

RatMul(a, b) == <<a[1] * b[1], a[2] * b[2]>>

(***************************************************************************)
(* The images.  A source is a run of pixels [x0, x1] of the image to       *)
(* convolve with a peak value; mask planes are sets of pixel positions     *)
(* with some bit set.                                                      *)
(***************************************************************************)
Catalog ==
    { [x0 |-> 1, x1 |-> 1, peak |-> 4],
      [x0 |-> 4, x1 |-> 4, peak |-> 4],
      [x0 |-> 7, x1 |-> 7, peak |-> 2],
      [x0 |-> 3, x1 |-> 5, peak |-> 4] }

Disjoint(a, b) == a.x1 < b.x0 \/ b.x1 < a.x0

SourceSets ==
    { S \in SUBSET Catalog : \A a \in S : \A b \in S : a = b \/ Disjoint(a, b) }

MaskPlanes ==
    { [itcMask |-> {},  itncMask |-> {},  itncW |-> ImgW],
      [itcMask |-> {2}, itncMask |-> {},  itncW |-> ImgW],
      [itcMask |-> {},  itncMask |-> {5}, itncW |-> ImgW],
      [itcMask |-> {2}, itncMask |-> {5}, itncW |-> ImgW],
      [itcMask |-> {},  itncMask |-> {},  itncW |-> ImgW - 1] }

Scenes ==
    { [sources |-> S, itcMask |-> m.itcMask, itncMask |-> m.itncMask,
       itcW |-> ImgW, itncW |-> m.itncW] : S \in SourceSets, m \in MaskPlanes }

Policies ==
    [ fpNpixMin : {1, 2},
      fpNpixMax : {2, 3},
      kernelCols : {1, 2},
      kernelRows : {1, 3},
      fpGrowKsize : {<<1, 2>>, <<1, 1>>},
      minCleanFp : {-1, 0, 1, 2},
      detThreshold : {<<2, 1>>, <<3, 1>>},
      detThresholdScaling : {<<1, 2>>, <<1, 1>>},
      detThresholdMin : {<<1, 1>>, <<2, 1>>} ]

(***************************************************************************)
(* Helpers of the footprint search.                                        *)
(***************************************************************************)
\* int(fpGrowKsize * max(kCols, kRows)): the product truncated toward zero.
FpGrowPix(p) ==
    LET k == IF p.kernelCols > p.kernelRows THEN p.kernelCols ELSE p.kernelRows
    IN  (p.fpGrowKsize[1] * k) \div p.fpGrowKsize[2]

Npix(fp) == fp.x1 - fp.x0 + 1

\* The footprints of a set of sources, left to right.
RECURSIVE SortByX0(_)
SortByX0(S) ==
    IF S = {} THEN <<>>
    ELSE LET m == CHOOSE a \in S : \A b \in S : a.x0 <= b.x0
         IN  <<m>> \o SortByX0(S \ {m})

\* DetectionSet(imageToConvolve, threshold, "", fpNpixMin).getFootprints():
\* the sources above the threshold with at least fpNpixMin pixels.  Each
\* footprint remembers the pass and the threshold it was detected under.
Detect(sc, thr, npixMin, pass) ==
    SortByX0({ [x0 |-> s.x0, x1 |-> s.x1, pass |-> pass, thr |-> thr] :
               s \in { t \in sc.sources :
                         RatGT(<<t.peak, 1>>, thr) /\ Npix(t) >= npixMin } })

\* growFootprint(*i, fpGrowPix, false)
GrowFootprint(fp, g) == [fp EXCEPT !.x0 = fp.x0 - g, !.x1 = fp.x1 + g]

\* The MaskedImage sub-image constructors of lines 668-669 throw when the
\* bounding box does not lie inside the image.
InsideImage(fp, w) == 0 <= fp.x0 /\ fp.x1 < w

\* FindSetBits::apply + getBits() > 0: some mask bit set inside the footprint.
HasSetBits(fp, mask) == \E x \in mask : fp.x0 <= x /\ x <= fp.x1

LoopCond_AtMost ==
    nCleanFp <= policy.minCleanFp /\ RatGT(detThreshold, policy.detThresholdMin)

LoopCond_Or ==
    nCleanFp < policy.minCleanFp \/ RatGT(detThreshold, policy.detThresholdMin)

\* Line 611: the condition of the threshold loop.
LoopCond ==
    nCleanFp < policy.minCleanFp /\ RatGT(detThreshold, policy.detThresholdMin)

ThrowCond_Quota == nCleanFp < policy.minCleanFp

\* Line 700: the condition of the final throw.
ThrowCond == Len(footprintListOut) = 0

ClearedOut_Kept == footprintListOut

\* Lines 612-613: both lists are cleared at the top of the loop body.
ClearedOut == <<>>

TooManyPix_OffByOne(fp) == Npix(fp) >= policy.fpNpixMax

\* Line 634
TooManyPix(fp) == Npix(fp) > policy.fpNpixMax

\* Line 698
NextThreshold == RatMul(detThreshold, policy.detThresholdScaling)

CurFp == footprintListIn[fpIdx]

CurGrown_NotGrown == CurFp

\* Lines 652-653: fpGrow
CurGrown == GrowFootprint(CurFp, FpGrowPix(policy))

InFor == fpPc = "for" /\ fpIdx <= Len(footprintListIn)

(***************************************************************************)
(* getCollectionOfFootprintsForPsfMatching, one action per step.           *)
(***************************************************************************)
FpEntry ==
    /\ policy \in Policies
    /\ scene \in Scenes
    /\ detThreshold = policy.detThreshold
    /\ threshold = <<0, 1>>
    /\ footprintListIn = <<>>
    /\ footprintListOut = <<>>
    /\ nCleanFp = 0
    /\ fpIdx = 1
    /\ fpPc = "while"
    /\ fpOutcome = "none"
    /\ nPasses = 0

\* Lines 611-631: the loop condition holds; clear, detect, reset the count.
BeginPass ==
    /\ fpPc = "while"
    /\ LoopCond
    /\ nPasses < MaxPasses
    /\ threshold' = detThreshold
    /\ footprintListIn' = Detect(scene, threshold', policy.fpNpixMin, nPasses + 1)
    /\ footprintListOut' = ClearedOut
    /\ nCleanFp' = 0
    /\ fpIdx' = 1
    /\ fpPc' = "for"
    /\ nPasses' = nPasses + 1
    /\ UNCHANGED <<policy, scene, detThreshold, fpOutcome>>

Skip ==
    /\ fpIdx' = fpIdx + 1
    /\ UNCHANGED <<policy, scene, detThreshold, threshold, footprintListIn,
                   footprintListOut, nCleanFp, fpPc, fpOutcome, nPasses>>

\* Lines 634-639
RejectTooManyPix ==
    /\ InFor
    /\ TooManyPix(CurFp)
    /\ Skip

\* Lines 664-676
RejectExtract ==
    /\ InFor
    /\ ~TooManyPix(CurFp)
    /\ ~(InsideImage(CurGrown, scene.itcW) /\ InsideImage(CurGrown, scene.itncW))
    /\ Skip

\* Lines 679-684
RejectMaskItc ==
    /\ InFor
    /\ ~TooManyPix(CurFp)
    /\ InsideImage(CurGrown, scene.itcW) /\ InsideImage(CurGrown, scene.itncW)
    /\ HasSetBits(CurGrown, scene.itcMask)
    /\ Skip

\* Lines 686-691
RejectMaskItnc ==
    /\ InFor
    /\ ~TooManyPix(CurFp)
    /\ InsideImage(CurGrown, scene.itcW) /\ InsideImage(CurGrown, scene.itncW)
    /\ ~HasSetBits(CurGrown, scene.itcMask)
    /\ HasSetBits(CurGrown, scene.itncMask)
    /\ Skip

\* Lines 693-695
AcceptClean ==
    /\ InFor
    /\ ~TooManyPix(CurFp)
    /\ InsideImage(CurGrown, scene.itcW) /\ InsideImage(CurGrown, scene.itncW)
    /\ ~HasSetBits(CurGrown, scene.itcMask)
    /\ ~HasSetBits(CurGrown, scene.itncMask)
    /\ footprintListOut' = Append(footprintListOut, CurGrown)
    /\ nCleanFp' = nCleanFp + 1
    /\ fpIdx' = fpIdx + 1
    /\ UNCHANGED <<policy, scene, detThreshold, threshold, footprintListIn, fpPc,
                   fpOutcome, nPasses>>

\* Line 698: the for loop is over; scale the threshold and test again.
EndPass ==
    /\ fpPc = "for"
    /\ fpIdx > Len(footprintListIn)
    /\ detThreshold' = NextThreshold
    /\ fpPc' = "while"
    /\ UNCHANGED <<policy, scene, threshold, footprintListIn, footprintListOut,
                   nCleanFp, fpIdx, fpOutcome, nPasses>>

\* Lines 700-703
ThrowNoFootprints ==
    /\ fpPc = "while"
    /\ ~LoopCond
    /\ ThrowCond
    /\ fpPc' = "done"
    /\ fpOutcome' = "raised"
    /\ UNCHANGED <<policy, scene, detThreshold, threshold, footprintListIn,
                   footprintListOut, nCleanFp, fpIdx, nPasses>>

\* Lines 705-709
ReturnFootprints ==
    /\ fpPc = "while"
    /\ ~LoopCond
    /\ ~ThrowCond
    /\ fpPc' = "done"
    /\ fpOutcome' = "returned"
    /\ UNCHANGED <<policy, scene, detThreshold, threshold, footprintListIn,
                   footprintListOut, nCleanFp, fpIdx, nPasses>>

(***************************************************************************)
(* PsfMatchingFunctor.  Pixels are integers; a double that may be          *)
(* not-a-number is a record [nan, v].  Matrices are indexed from 0 as in   *)
(* the source, index N = Len(basisList) being the background parameter.    *)
(***************************************************************************)
Num(x) == [nan |-> FALSE, v |-> x]

NaN == [nan |-> TRUE, v |-> 0]

\* std::isnan
IsNaN(d) == d.nan

\* d < 0.0, false for a NaN
Negative(d) == ~d.nan /\ d.v < 0

\* sqrt of a double that is a perfect square (NaN stays NaN, as does sqrt of
\* a negative number)
Sqrt(d) ==
    IF d.nan \/ d.v < 0 THEN NaN
    ELSE Num(CHOOSE r \in 0..d.v : r * r = d.v)

Pix == (0..(ImCols - 1)) \X (0..(ImRows - 1))

\* The DeltaFunctionKernel of the given size with its unit pixel at (px, py);
\* the centre is that of afw's Kernel(width, height).
DeltaFunctionKernel(w, h, px, py) ==
    [width |-> w, height |-> h, ctrX |-> (w - 1) \div 2, ctrY |-> (h - 1) \div 2,
     px |-> px, py |-> py]

\* The basis lists a functor is constructed with: the delta-function set of
\* a kCols x kRows kernel, in the order of generateDeltaFunctionKernelSet.
DeltaBasis(w, h) ==
    [k \in 1..(w * h) |-> DeltaFunctionKernel(w, h, (k - 1) % w, (k - 1) \div w)]

KernelSizes == {<<2, 1>>, <<1, 2>>}

NKernel == Len(basisList)

NParam == NKernel + 1

Idx0 == 0..(NParam - 1)

Zero == [ij \in Idx0 \X Idx0 |-> 0]

ZeroVec == [i \in Idx0 |-> 0]

\* Lines 143-146
StartCol == basisList[1].ctrX

StartRow == basisList[1].ctrY

EndCol == ImCols - (basisList[1].width - basisList[1].ctrX) + 1

EndRow == ImRows - (basisList[1].height - basisList[1].ctrY) + 1

\* math::convolve(out, in, kernel, false) for a delta-function kernel: inside
\* the good region the input shifted by the unit pixel, 0 on the border.
Convolve(in, k) ==
    [p \in Pix |->
        IF /\ k.ctrX <= p[1] /\ p[1] < ImCols - (k.width - k.ctrX) + 1
           /\ k.ctrY <= p[2] /\ p[2] < ImRows - (k.height - k.ctrY) + 1
        THEN in[<<p[1] - k.ctrX + k.px, p[2] - k.ctrY + k.py>>]
        ELSE 0]

\* The images apply is called with.
TemplateImages ==
    { [p \in Pix |-> (a * p[1] + b * p[2] + c) % 3] : a \in 0..1, b \in 0..1, c \in 1..2 }

ScienceImages ==
    { [p \in Pix |-> (a * p[1] + 1) % 3] : a \in 0..1 }

\* Variances are rationals <<num, den>>: 1 or 1/2.
VarianceImages ==
    { [p \in Pix |-> <<1, 1 + ((a * (p[1] + p[2])) % 2)>>] : a \in 0..1 }

\* 1.0 / variance
InvVariance(var) == var[2] \div var[1]

AccumulateM_BackgroundPerKernel(Mx, c, v) ==
    [ij \in DOMAIN Mx |->
        LET i == ij[1]
            j == ij[2]
        IN  IF i < NKernel /\ j < NKernel /\ i <= j THEN Mx[ij] + c[i] * c[j] * v
            ELSE IF i < NKernel /\ j = NParam - 1 THEN Mx[ij] + c[i] * v
            ELSE IF i = NParam - 1 /\ j = NParam - 1 THEN Mx[ij] + NKernel * v
            ELSE Mx[ij]]

\* Lines 172-196: what one pixel adds to M; c are the pixels of the
\* basis-convolved images (from 0), v the inverse variance.
AccumulateM(Mx, c, v) ==
    [ij \in DOMAIN Mx |->
        LET i == ij[1]
            j == ij[2]
        IN  IF i < NKernel /\ j < NKernel /\ i <= j THEN Mx[ij] + c[i] * c[j] * v
            ELSE IF i < NKernel /\ j = NParam - 1 THEN Mx[ij] + c[i] * v
            ELSE IF i = NParam - 1 /\ j = NParam - 1 THEN Mx[ij] + 1 * v
            ELSE Mx[ij]]

\* Lines 188 and 195
AccumulateB(Bx, c, nc, v) ==
    [i \in DOMAIN Bx |->
        IF i < NKernel THEN Bx[i] + nc * c[i] * v ELSE Bx[i] + nc * v]

Mirror_SkipBackground(Mx) ==
    [ij \in DOMAIN Mx |->
        IF ij[1] > ij[2] /\ ij[1] < NParam - 1 THEN Mx[<<ij[2], ij[1]>>] ELSE Mx[ij]]

\* Lines 242-246: fill in the rest of M.
Mirror(Mx) ==
    [ij \in DOMAIN Mx |-> IF ij[1] > ij[2] THEN Mx[<<ij[2], ij[1]>>] ELSE Mx[ij]]

\* The stages of the solver cascade, lines 261-288.
Stages == <<"ldlt", "llt", "lu", "eigen">>

\* What a stage can deliver: per coefficient a number (which tells the stage
\* and the index) or a NaN.
StageSolutions(stage) ==
    { [i \in Idx0 |-> IF i \in nans THEN NaN ELSE Num(10 * stage + i)] :
        nans \in SUBSET Idx0 }

\* What the diagonal of Error2 can be: not-a-number, negative or a variance.
Error2Diagonals ==
    { [i \in Idx0 |-> IF e[i] = "nan" THEN NaN
                      ELSE IF e[i] = "neg" THEN Num(-1)
                      ELSE Num((i + 2) * (i + 2))] :
        e \in [Idx0 -> {"nan", "neg", "var"}] }

Dead == <<>>

NoLoc == [conv |-> <<>>, itc |-> <<0, 0>>, itnc |-> <<0, 0>>, var |-> <<0, 0>>]

NoImages == [itc |-> <<>>, itnc |-> <<>>, var |-> <<>>, conv |-> <<>>]

(***************************************************************************)
(* The constructor, lines 43-52.                                           *)
(***************************************************************************)
ApEntry ==
    /\ \E ks \in KernelSizes : basisList = DeltaBasis(ks[1], ks[2])
    /\ kernel = [call |-> 0, coef |-> <<>>]
    /\ kernelError = [call |-> 0, coef |-> <<>>]
    /\ background = [call |-> 0, val |-> Num(0)]
    /\ backgroundError = [call |-> 0, val |-> Num(0)]
    /\ images = NoImages
    /\ loc = NoLoc
    /\ M = Dead
    /\ B = Dead
    /\ row = 0
    /\ col = 0
    /\ Soln = Dead
    /\ Error2 = Dead
    /\ kValues = <<>>
    /\ kErrValues = <<>>
    /\ idx = 0
    /\ tried = <<>>
    /\ apPc = "idle"
    /\ apOutcome = "none"
    /\ callNo = 0

\* Lines 58-65: reset() changes nothing, its body is commented out.
ResetKernel == kernel

ResetKernelError == kernelError

ResetBackground == background

ResetBackgroundError == backgroundError

stored == <<kernel, kernelError, background, backgroundError>>

\* Lines 78-161: reset, fresh M and B, the basis convolutions, the locators.
StartApply ==
    /\ apPc = "idle"
    /\ callNo < MaxCalls
    /\ callNo' = callNo + 1
    /\ kernel' = ResetKernel
    /\ kernelError' = ResetKernelError
    /\ background' = ResetBackground
    /\ backgroundError' = ResetBackgroundError
    /\ \E t \in TemplateImages, n \in ScienceImages, v \in VarianceImages :
         images' = [itc |-> t, itnc |-> n, var |-> v,
                    conv |-> [k \in 1..NKernel |-> Convolve(t, basisList[k])]]
    /\ M' = Zero
    /\ B' = ZeroVec
    /\ loc' = [conv |-> [k \in 1..NKernel |-> <<StartCol, StartRow>>],
               itc |-> <<StartCol, StartRow>>,
               itnc |-> <<StartCol, StartRow>>,
               var |-> <<StartCol, StartRow>>]
    /\ row' = StartRow
    /\ col' = StartCol
    /\ Soln' = Dead
    /\ Error2' = Dead
    /\ kValues' = <<>>
    /\ kErrValues' = <<>>
    /\ idx' = 0
    /\ tried' = <<>>
    /\ apPc' = "walk"
    /\ apOutcome' = "none"
    /\ UNCHANGED basisList

\* Lines 165-206: one pixel of the walk.
AccumulatePixel ==
    /\ apPc = "walk"
    /\ row < EndRow
    /\ col < EndCol
    /\ LET ncImage == images.itnc[loc.itnc]
           iVariance == InvVariance(images.var[loc.var])
           c == [i \in 0..(NKernel - 1) |-> images.conv[i + 1][loc.conv[i + 1]]]
       IN  /\ M' = AccumulateM(M, c, iVariance)
           /\ B' = AccumulateB(B, c, ncImage, iVariance)
    /\ loc' = [conv |-> [k \in 1..NKernel |-> <<loc.conv[k][1] + 1, loc.conv[k][2]>>],
               itc |-> <<loc.itc[1] + 1, loc.itc[2]>>,
               itnc |-> <<loc.itnc[1] + 1, loc.itnc[2]>>,
               var |-> <<loc.var[1] + 1, loc.var[2]>>]
    /\ col' = col + 1
    /\ UNCHANGED <<basisList, stored, images, row, Soln, Error2, kValues,
                   kErrValues, idx, tried, apPc, apOutcome, callNo>>

RowStep_NoRewind == <<-(EndCol - StartCol) + 1, 1>>

\* Line 163
RowStep == <<-(EndCol - StartCol), 1>>

\* Lines 208-216: the end of a row.
NextRow ==
    /\ apPc = "walk"
    /\ row < EndRow
    /\ col >= EndCol
    /\ loc' = [conv |-> [k \in 1..NKernel |->
                           <<loc.conv[k][1] + RowStep[1], loc.conv[k][2] + RowStep[2]>>],
               itc |-> <<loc.itc[1] + RowStep[1], loc.itc[2] + RowStep[2]>>,
               itnc |-> <<loc.itnc[1] + RowStep[1], loc.itnc[2] + RowStep[2]>>,
               var |-> <<loc.var[1] + RowStep[1], loc.var[2] + RowStep[2]>>]
    /\ row' = row + 1
    /\ col' = StartCol
    /\ UNCHANGED <<basisList, stored, images, M, B, Soln, Error2, kValues,
                   kErrValues, idx, tried, apPc, apOutcome, callNo>>

\* Lines 242-260: the walk is over; mirror M and zero Soln.
FillRestOfM ==
    /\ apPc = "walk"
    /\ row >= EndRow
    /\ M' = Mirror(M)
    /\ Soln' = [i \in Idx0 |-> Num(0)]
    /\ apPc' = "solve"
    /\ UNCHANGED <<basisList, stored, images, loc, B, row, col, Error2, kValues,
                   kErrValues, idx, tried, apOutcome, callNo>>

NextStage_SkipLlt ==
    IF tried = <<>> THEN "ldlt"
    ELSE IF Len(tried) < 3 THEN "lu" ELSE "eigen"

\* Lines 261-271: the nesting of the ifs; the stage to attempt after the
\* failed ones.
NextStage == Stages[Len(tried) + 1]

StageNo(stage) == CHOOSE n \in 1..Len(Stages) : Stages[n] = stage

apLocals == <<images, loc, M, B, row, col, Error2, kValues, kErrValues, idx>>

\* M.ldlt().solve(B, &Soln), M.llt().solve(B, &Soln), M.lu().solve(B, &Soln):
\* the stage either solves (true) or reports failure (false).
TryStage(stage) ==
    /\ apPc = "solve"
    /\ NextStage = stage
    /\ tried' = Append(tried, stage)
    /\ \/ /\ Soln' \in StageSolutions(StageNo(stage))
          /\ apPc' = "cov"
       \/ /\ UNCHANGED Soln
          /\ apPc' = "solve"
    /\ UNCHANGED <<basisList, stored, apLocals, apOutcome, callNo>>

\* Line 261
SolveLdlt == TryStage("ldlt")

\* Line 264
SolveLlt == TryStage("llt")

\* Line 267
SolveLu == TryStage("lu")

\* Lines 271-288: the last resort; an exception ends the call.
SolveEigen ==
    /\ apPc = "solve"
    /\ NextStage = "eigen"
    /\ tried' = Append(tried, "eigen")
    /\ \/ /\ Soln' \in StageSolutions(StageNo("eigen"))
          /\ apPc' = "cov"
          /\ UNCHANGED apOutcome
       \/ /\ UNCHANGED Soln
          /\ apPc' = "done"
          /\ apOutcome' = "raised"
    /\ UNCHANGED <<basisList, stored, apLocals, callNo>>

\* Lines 310-312: Error2 from M; M, B, the images and the locators are not
\* read after this point.
ComputeError2 ==
    /\ apPc = "cov"
    /\ Error2' \in Error2Diagonals
    /\ M' = Dead
    /\ B' = Dead
    /\ images' = NoImages
    /\ loc' = NoLoc
    /\ idx' = 0
    /\ apPc' = "check"
    /\ UNCHANGED <<basisList, stored, row, col, Soln, kValues, kErrValues,
                   tried, apOutcome, callNo>>

\* A throw of LSST_EXCEPT out of apply.
Throw ==
    /\ apPc' = "done"
    /\ apOutcome' = "raised"
    /\ UNCHANGED <<basisList, stored, apLocals, Soln, tried, callNo>>

\* kCols * kRows of the Policy, the size of the basis kernels.
KSize == basisList[1].width * basisList[1].height

InCheck == apPc = "check" /\ idx < KSize

\* Lines 325-328
ThrowSolnNaN ==
    /\ InCheck
    /\ IsNaN(Soln[idx])
    /\ Throw

\* Lines 329-332
ThrowErrorNaN ==
    /\ InCheck
    /\ ~IsNaN(Soln[idx])
    /\ IsNaN(Error2[idx])
    /\ Throw

\* Lines 333-337
ThrowErrorNegative ==
    /\ InCheck
    /\ ~IsNaN(Soln[idx])
    /\ ~IsNaN(Error2[idx])
    /\ Negative(Error2[idx])
    /\ Throw

\* Lines 339-340
StoreKValue ==
    /\ InCheck
    /\ ~IsNaN(Soln[idx])
    /\ ~IsNaN(Error2[idx])
    /\ ~Negative(Error2[idx])
    /\ kValues' = Append(kValues, Soln[idx])
    /\ kErrValues' = Append(kErrValues, Sqrt(Error2[idx]))
    /\ idx' = idx + 1
    /\ UNCHANGED <<basisList, stored, images, loc, M, B, row, col, Soln,
                   Error2, tried, apPc, apOutcome, callNo>>

\* Lines 343-344: the two LinearCombinationKernels replace the stored ones.
SetKernels ==
    /\ apPc = "check"
    /\ idx >= KSize
    /\ kernel' = [call |-> callNo, coef |-> kValues]
    /\ kernelError' = [call |-> callNo, coef |-> kErrValues]
    /\ apPc' = "bg"
    /\ UNCHANGED <<basisList, background, backgroundError, apLocals, Soln,
                   tried, apOutcome, callNo>>

\* Lines 347-349
ThrowBackgroundNaN ==
    /\ apPc = "bg"
    /\ IsNaN(Error2[NParam - 1])
    /\ Throw

\* Lines 350-355
ThrowBackgroundNegative ==
    /\ apPc = "bg"
    /\ ~IsNaN(Error2[NParam - 1])
    /\ Negative(Error2[NParam - 1])
    /\ Throw

SetBackground_FromLastKernelEntry ==
    /\ apPc = "bg"
    /\ ~IsNaN(Error2[NParam - 1])
    /\ ~Negative(Error2[NParam - 1])
    /\ background' = [call |-> callNo, val |-> Soln[NParam - 2]]
    /\ backgroundError' = [call |-> callNo, val |-> Sqrt(Error2[NParam - 1])]
    /\ apPc' = "done"
    /\ apOutcome' = "returned"
    /\ UNCHANGED <<basisList, kernel, kernelError, apLocals, Soln, tried, callNo>>

\* Lines 356-358
SetBackground ==
    /\ apPc = "bg"
    /\ ~IsNaN(Error2[NParam - 1])
    /\ ~Negative(Error2[NParam - 1])
    /\ background' = [call |-> callNo, val |-> Soln[NParam - 1]]
    /\ backgroundError' = [call |-> callNo, val |-> Sqrt(Error2[NParam - 1])]
    /\ apPc' = "done"
    /\ apOutcome' = "returned"
    /\ UNCHANGED <<basisList, kernel, kernelError, apLocals, Soln, tried, callNo>>

\* The call is over (line 358, or a throw): its locals are gone.
LeaveApply ==
    /\ apPc = "done"
    /\ images' = NoImages
    /\ loc' = NoLoc
    /\ M' = Dead
    /\ B' = Dead
    /\ row' = 0
    /\ col' = 0
    /\ Soln' = Dead
    /\ Error2' = Dead
    /\ kValues' = <<>>
    /\ kErrValues' = <<>>
    /\ idx' = 0
    /\ tried' = <<>>
    /\ apPc' = "idle"
    /\ UNCHANGED <<basisList, stored, apOutcome, callNo>>

ApIdle ==
    /\ basisList = <<>>
    /\ kernel = [call |-> 0, coef |-> <<>>]
    /\ kernelError = [call |-> 0, coef |-> <<>>]
    /\ background = [call |-> 0, val |-> Num(0)]
    /\ backgroundError = [call |-> 0, val |-> Num(0)]
    /\ images = NoImages
    /\ loc = NoLoc
    /\ M = Dead
    /\ B = Dead
    /\ row = 0
    /\ col = 0
    /\ Soln = Dead
    /\ Error2 = Dead
    /\ kValues = <<>>
    /\ kErrValues = <<>>
    /\ idx = 0
    /\ tried = <<>>
    /\ apPc = "off"
    /\ apOutcome = "none"
    /\ callNo = 0

FpIdle ==
    /\ policy = <<>>
    /\ scene = <<>>
    /\ detThreshold = <<0, 1>>
    /\ threshold = <<0, 1>>
    /\ footprintListIn = <<>>
    /\ footprintListOut = <<>>
    /\ nCleanFp = 0
    /\ fpIdx = 1
    /\ fpPc = "off"
    /\ fpOutcome = "none"
    /\ nPasses = 0

(***************************************************************************)
(* generateDeltaFunctionKernelSet, lines 378-397.                          *)
(***************************************************************************)
RECURSIVE Pow2(_)
Pow2(n) == IF n = 0 THEN 1 ELSE 2 * Pow2(n - 1)

UnsignedInts == 0..(Pow2(IntBits) - 1)

\* static_cast<int>(u) of an unsigned int: the value modulo 2^IntBits, in
\* the range of int.
StaticCastInt(u) == IF u >= Pow2(IntBits - 1) THEN u - Pow2(IntBits) ELSE u

DgEntry ==
    /\ width \in UnsignedInts
    /\ height \in UnsignedInts
    /\ signedWidth = 0
    /\ signedHeight = 0
    /\ dgRow = 0
    /\ dgCol = 0
    /\ kernelBasisList = <<>>
    /\ dgPc = "entry"
    /\ dgOutcome = "none"

DgIdle ==
    /\ width = 0
    /\ height = 0
    /\ signedWidth = 0
    /\ signedHeight = 0
    /\ dgRow = 0
    /\ dgCol = 0
    /\ kernelBasisList = <<>>
    /\ dgPc = "off"
    /\ dgOutcome = "none"

\* Lines 383-385
ThrowNotPositive ==
    /\ dgPc = "entry"
    /\ (width < 1) \/ (height < 1)
    /\ dgPc' = "done"
    /\ dgOutcome' = "raised"
    /\ UNCHANGED <<width, height, signedWidth, signedHeight, dgRow, dgCol,
                   kernelBasisList>>

\* Lines 386-389
EnterLoops ==
    /\ dgPc = "entry"
    /\ ~((width < 1) \/ (height < 1))
    /\ signedWidth' = StaticCastInt(width)
    /\ signedHeight' = StaticCastInt(height)
    /\ dgRow' = 0
    /\ dgPc' = "rows"
    /\ UNCHANGED <<width, height, dgCol, kernelBasisList, dgOutcome>>

\* Lines 389-390: a row starts.
BeginRow ==
    /\ dgPc = "rows"
    /\ dgRow < signedHeight
    /\ dgCol' = 0
    /\ dgPc' = "cols"
    /\ UNCHANGED <<width, height, signedWidth, signedHeight, dgRow,
                   kernelBasisList, dgOutcome>>

\* Lines 390-394
PushKernel ==
    /\ dgPc = "cols"
    /\ dgCol < signedWidth
    /\ kernelBasisList' =
         Append(kernelBasisList, DeltaFunctionKernel(width, height, dgCol, dgRow))
    /\ dgCol' = dgCol + 1
    /\ UNCHANGED <<width, height, signedWidth, signedHeight, dgRow, dgPc,
                   dgOutcome>>

\* Lines 389-390: the row is over.
EndRowOfKernels ==
    /\ dgPc = "cols"
    /\ dgCol >= signedWidth
    /\ dgRow' = dgRow + 1
    /\ dgPc' = "rows"
    /\ UNCHANGED <<width, height, signedWidth, signedHeight, dgCol,
                   kernelBasisList, dgOutcome>>

\* Line 396
ReturnBasisList ==
    /\ dgPc = "rows"
    /\ dgRow >= signedHeight
    /\ dgPc' = "done"
    /\ dgOutcome' = "returned"
    /\ UNCHANGED <<width, height, signedWidth, signedHeight, dgRow, dgCol,
                   kernelBasisList>>

(***************************************************************************)
(* convolveAndSubtract, lines 482-509 (MaskedImage template) and 524-554   *)
(* (Image template).  Images are functions over Pix; a mask pixel is the   *)
(* set of its mask planes; pixel and variance values are integers.         *)
(***************************************************************************)
\* The pixels math::convolve computes for delta-function kernel k.
InGoodRegion(p, k) ==
    /\ k.ctrX <= p[1] /\ p[1] < ImCols - (k.width - k.ctrX) + 1
    /\ k.ctrY <= p[2] /\ p[2] < ImRows - (k.height - k.ctrY) + 1

RECURSIVE WeightedSum(_, _, _)
\* coef[1] * terms[1] + ... + coef[n] * terms[n]
WeightedSum(coef, terms, n) ==
    IF n = 0 THEN 0
    ELSE coef[n] * terms[n] + WeightedSum(coef, terms, n - 1)

\* math::convolve of an image plane with a LinearCombinationKernel: the sum
\* of the basis convolutions weighted by the coefficients.
ConvolveImage(in, K) ==
    [p \in Pix |->
        WeightedSum(K.coef, [k \in 1..Len(K.basis) |-> Convolve(in, K.basis[k])[p]],
                    Len(K.basis))]

\* math::convolve of a variance plane: the weights are the squares.
ConvolveVariance(var, K) ==
    [p \in Pix |->
        WeightedSum([k \in 1..Len(K.basis) |-> K.coef[k] * K.coef[k]],
                    [k \in 1..Len(K.basis) |-> Convolve(var, K.basis[k])[p]],
                    Len(K.basis))]

\* math::convolve of a mask plane: the planes of all the pixels under the
\* kernel, or-ed; the border gets the planes `edge'.
ConvolveMask(mask, K, edge) ==
    [p \in Pix |->
        IF InGoodRegion(p, K.basis[1])
        THEN UNION { mask[<<p[1] - K.basis[k].ctrX + K.basis[k].px,
                            p[2] - K.basis[k].ctrY + K.basis[k].py>>] :
                     k \in 1..Len(K.basis) }
        ELSE edge]

\* function(xPos, yPos) of lines 445-454, or the scalar.
BackgroundAt(bg, p) ==
    IF bg.kind = "scalar" THEN bg.c ELSE bg.a * p[1] + bg.b * p[2] + bg.c

\* addSomethingToImage, lines 440-467
AddSomethingToImage(img, bg) ==
    IF bg.kind = "scalar" /\ bg.c = 0 THEN img
    ELSE [p \in Pix |-> img[p] + BackgroundAt(bg, p)]

\* Image::operator-=
ImageMinus(a, b) == [p \in Pix |-> a[p] - b[p]]

\* MaskedImage::operator-=: the masks are or-ed, the variances added.
MaskedImageMinus(a, b) ==
    [image |-> ImageMinus(a.image, b.image),
     mask |-> [p \in Pix |-> a.mask[p] \cup b.mask[p]],
     variance |-> [p \in Pix |-> a.variance[p] + b.variance[p]]]

\* Image::operator*=(-1.0)
ImageTimesMinusOne(a) == [p \in Pix |-> (-1) * a[p]]

\* MaskedImage::operator*=(-1.0): the variance is scaled by the square.
MaskedImageTimesMinusOne(a) ==
    [image |-> ImageTimesMinusOne(a.image),
     mask |-> a.mask,
     variance |-> [p \in Pix |-> (-1) * (-1) * a.variance[p]]]

\* A freshly constructed MaskedImage of the given dimensions.
BlankMaskedImage ==
    [image |-> [p \in Pix |-> 0], mask |-> [p \in Pix |-> {}],
     variance |-> [p \in Pix |-> 0]]

\* The arguments of the model.
MaskPlanesOfPixel == { [p \in Pix |-> IF p = bad THEN {"BAD"} ELSE {}] :
                          bad \in {<<0, 0>>, <<ImCols, ImRows>>} }

SatPlanesOfPixel == { [p \in Pix |-> IF p = sat THEN {"SAT"} ELSE {}] :
                         sat \in {<<ImCols - 1, ImRows - 1>>, <<ImCols, ImRows>>} }

VariancePlanes == { [p \in Pix |-> 1 + a * p[1]] : a \in 0..1 }

TemplateMaskedImages ==
    { [image |-> t, mask |-> m, variance |-> v] :
        t \in { [p \in Pix |-> (p[1] + b * p[2] + 1) % 3] : b \in 0..1 },
        m \in MaskPlanesOfPixel, v \in VariancePlanes }

TemplatePlainImages == { [image |-> t] : t \in TemplateImages }

ScienceMaskedImages ==
    { [image |-> n, mask |-> m, variance |-> v] :
        n \in ScienceImages, m \in SatPlanesOfPixel, v \in VariancePlanes }

Kernels ==
    { [basis |-> DeltaBasis(ks[1], ks[2]), coef |-> c] :
        ks \in KernelSizes, c \in {<<1, 0>>, <<1, 2>>, <<0, 1>>} }

Backgrounds ==
    { [kind |-> "scalar", a |-> 0, b |-> 0, c |-> 0],
      [kind |-> "scalar", a |-> 0, b |-> 0, c |-> 2],
      [kind |-> "function", a |-> 1, b |-> 2, c |-> 1] }

NoMaskedImage == [image |-> <<>>, mask |-> <<>>, variance |-> <<>>]

CsEntry ==
    /\ csOverload \in {"MaskedImage", "Image"}
    /\ imageToConvolve \in
         IF csOverload = "MaskedImage" THEN TemplateMaskedImages ELSE TemplatePlainImages
    /\ imageToNotConvolve \in ScienceMaskedImages
    /\ convolutionKernel \in Kernels
    /\ csBackground \in Backgrounds
    /\ invert \in BOOLEAN
    /\ convolvedMaskedImage = NoMaskedImage
    /\ convolveOut = NoMaskedImage
    /\ imagesAtEntry = <<imageToConvolve, imageToNotConvolve>>
    /\ csPc = "entry"

CsIdle ==
    /\ csOverload = "none"
    /\ imageToConvolve = NoMaskedImage
    /\ imageToNotConvolve = NoMaskedImage
    /\ convolutionKernel = [basis |-> <<>>, coef |-> <<>>]
    /\ csBackground = [kind |-> "scalar", a |-> 0, b |-> 0, c |-> 0]
    /\ invert = FALSE
    /\ convolvedMaskedImage = NoMaskedImage
    /\ convolveOut = NoMaskedImage
    /\ imagesAtEntry = <<NoMaskedImage, NoMaskedImage>>
    /\ csPc = "off"

csArgs == <<csOverload, imageToConvolve, imageToNotConvolve, convolutionKernel,
            csBackground, invert, imagesAtEntry>>

\* Lines 493-495: the MaskedImage template is convolved plane by plane.
CsConvolveMaskedImage ==
    /\ csPc = "entry"
    /\ csOverload = "MaskedImage"
    /\ \E edge \in {{}, {"EDGE"}} :
         convolvedMaskedImage' =
            [image |-> ConvolveImage(imageToConvolve.image, convolutionKernel),
             mask |-> ConvolveMask(imageToConvolve.mask, convolutionKernel, edge),
             variance |-> ConvolveVariance(imageToConvolve.variance, convolutionKernel)]
    /\ convolveOut' = convolvedMaskedImage'
    /\ csPc' = "convolved"
    /\ UNCHANGED csArgs

\* Lines 535-538: the Image template is convolved into the image plane of a
\* blank MaskedImage.
CsConvolveImage ==
    /\ csPc = "entry"
    /\ csOverload = "Image"
    /\ convolvedMaskedImage' =
         [BlankMaskedImage EXCEPT
            !.image = ConvolveImage(imageToConvolve.image, convolutionKernel)]
    /\ convolveOut' = convolvedMaskedImage'
    /\ csPc' = "convolved"
    /\ UNCHANGED csArgs

\* Lines 498 and 541
CsAddBackground ==
    /\ csPc = "convolved"
    /\ convolvedMaskedImage' =
         [convolvedMaskedImage EXCEPT
            !.image = AddSomethingToImage(convolvedMaskedImage.image, csBackground)]
    /\ csPc' = "background"
    /\ UNCHANGED <<csArgs, convolveOut>>

\* Line 501
CsSubtractMaskedImage ==
    /\ csPc = "background"
    /\ csOverload = "MaskedImage"
    /\ convolvedMaskedImage' = MaskedImageMinus(convolvedMaskedImage, imageToNotConvolve)
    /\ csPc' = "subtracted"
    /\ UNCHANGED <<csArgs, convolveOut>>

\* Line 544
CsSubtractImage ==
    /\ csPc = "background"
    /\ csOverload = "Image"
    /\ convolvedMaskedImage' =
         [convolvedMaskedImage EXCEPT
            !.image = ImageMinus(convolvedMaskedImage.image, imageToNotConvolve.image)]
    /\ csPc' = "subtracted"
    /\ UNCHANGED <<csArgs, convolveOut>>

DoInvert_Negated == ~invert

\* Lines 504 and 547: if (invert)
DoInvert == invert

\* Lines 504-506
CsInvertMaskedImage ==
    /\ csPc = "subtracted"
    /\ csOverload = "MaskedImage"
    /\ DoInvert
    /\ convolvedMaskedImage' = MaskedImageTimesMinusOne(convolvedMaskedImage)
    /\ csPc' = "inverted"
    /\ UNCHANGED <<csArgs, convolveOut>>

\* Lines 547-549
CsInvertImage ==
    /\ csPc = "subtracted"
    /\ csOverload = "Image"
    /\ DoInvert
    /\ convolvedMaskedImage' =
         [convolvedMaskedImage EXCEPT
            !.image = ImageTimesMinusOne(convolvedMaskedImage.image)]
    /\ csPc' = "inverted"
    /\ UNCHANGED <<csArgs, convolveOut>>

\* Lines 504 and 547 with invert false
CsKeepSign ==
    /\ csPc = "subtracted"
    /\ ~DoInvert
    /\ csPc' = "inverted"
    /\ UNCHANGED <<csArgs, convolveOut, convolvedMaskedImage>>

CsCopyPlanes_MaskOnly ==
    /\ csPc = "inverted"
    /\ csOverload = "Image"
    /\ convolvedMaskedImage' =
         [convolvedMaskedImage EXCEPT !.mask = imageToNotConvolve.mask]
    /\ csPc' = "copied"
    /\ UNCHANGED <<csArgs, convolveOut>>

\* Lines 550-551: the Image overload copies the mask and the variance of
\* imageToNotConvolve (operator<<= copies the pixels).
CsCopyPlanes ==
    /\ csPc = "inverted"
    /\ csOverload = "Image"
    /\ convolvedMaskedImage' =
         [convolvedMaskedImage EXCEPT !.mask = imageToNotConvolve.mask,
                                      !.variance = imageToNotConvolve.variance]
    /\ csPc' = "copied"
    /\ UNCHANGED <<csArgs, convolveOut>>

\* Lines 508 and 553
CsReturn ==
    /\ \/ csPc = "inverted" /\ csOverload = "MaskedImage"
       \/ csPc = "copied"
    /\ csPc' = "done"
    /\ UNCHANGED <<csArgs, convolveOut, convolvedMaskedImage>>

(***************************************************************************)
(* The specifications, one per routine.                                    *)
(***************************************************************************)
InitFp == FpEntry /\ ApIdle /\ DgIdle /\ CsIdle

NextFp ==
    \/ BeginPass /\ UNCHANGED <<apVars, dgVars, csVars>>
    \/ RejectTooManyPix /\ UNCHANGED <<apVars, dgVars, csVars>>
    \/ RejectExtract /\ UNCHANGED <<apVars, dgVars, csVars>>
    \/ RejectMaskItc /\ UNCHANGED <<apVars, dgVars, csVars>>
    \/ RejectMaskItnc /\ UNCHANGED <<apVars, dgVars, csVars>>
    \/ AcceptClean /\ UNCHANGED <<apVars, dgVars, csVars>>
    \/ EndPass /\ UNCHANGED <<apVars, dgVars, csVars>>
    \/ ThrowNoFootprints /\ UNCHANGED <<apVars, dgVars, csVars>>
    \/ ReturnFootprints /\ UNCHANGED <<apVars, dgVars, csVars>>

SpecFp == InitFp /\ [][NextFp]_vars

InitApply == ApEntry /\ FpIdle /\ DgIdle /\ CsIdle

NextApply ==
    \/ StartApply /\ UNCHANGED <<fpVars, dgVars, csVars>>
    \/ AccumulatePixel /\ UNCHANGED <<fpVars, dgVars, csVars>>
    \/ NextRow /\ UNCHANGED <<fpVars, dgVars, csVars>>
    \/ FillRestOfM /\ UNCHANGED <<fpVars, dgVars, csVars>>
    \/ SolveLdlt /\ UNCHANGED <<fpVars, dgVars, csVars>>
    \/ SolveLlt /\ UNCHANGED <<fpVars, dgVars, csVars>>
    \/ SolveLu /\ UNCHANGED <<fpVars, dgVars, csVars>>
    \/ SolveEigen /\ UNCHANGED <<fpVars, dgVars, csVars>>
    \/ ComputeError2 /\ UNCHANGED <<fpVars, dgVars, csVars>>
    \/ ThrowSolnNaN /\ UNCHANGED <<fpVars, dgVars, csVars>>
    \/ ThrowErrorNaN /\ UNCHANGED <<fpVars, dgVars, csVars>>
    \/ ThrowErrorNegative /\ UNCHANGED <<fpVars, dgVars, csVars>>
    \/ StoreKValue /\ UNCHANGED <<fpVars, dgVars, csVars>>
    \/ SetKernels /\ UNCHANGED <<fpVars, dgVars, csVars>>
    \/ ThrowBackgroundNaN /\ UNCHANGED <<fpVars, dgVars, csVars>>
    \/ ThrowBackgroundNegative /\ UNCHANGED <<fpVars, dgVars, csVars>>
    \/ SetBackground /\ UNCHANGED <<fpVars, dgVars, csVars>>
    \/ LeaveApply /\ UNCHANGED <<fpVars, dgVars, csVars>>

SpecApply == InitApply /\ [][NextApply]_vars

InitDelta == DgEntry /\ FpIdle /\ ApIdle /\ CsIdle

NextDelta ==
    \/ ThrowNotPositive /\ UNCHANGED <<fpVars, apVars, csVars>>
    \/ EnterLoops /\ UNCHANGED <<fpVars, apVars, csVars>>
    \/ BeginRow /\ UNCHANGED <<fpVars, apVars, csVars>>
    \/ PushKernel /\ UNCHANGED <<fpVars, apVars, csVars>>
    \/ EndRowOfKernels /\ UNCHANGED <<fpVars, apVars, csVars>>
    \/ ReturnBasisList /\ UNCHANGED <<fpVars, apVars, csVars>>

SpecDelta == InitDelta /\ [][NextDelta]_vars

InitSubtract == CsEntry /\ FpIdle /\ ApIdle /\ DgIdle

NextSubtract ==
    \/ CsConvolveMaskedImage /\ UNCHANGED <<fpVars, apVars, dgVars>>
    \/ CsConvolveImage /\ UNCHANGED <<fpVars, apVars, dgVars>>
    \/ CsAddBackground /\ UNCHANGED <<fpVars, apVars, dgVars>>
    \/ CsSubtractMaskedImage /\ UNCHANGED <<fpVars, apVars, dgVars>>
    \/ CsSubtractImage /\ UNCHANGED <<fpVars, apVars, dgVars>>
    \/ CsInvertMaskedImage /\ UNCHANGED <<fpVars, apVars, dgVars>>
    \/ CsInvertImage /\ UNCHANGED <<fpVars, apVars, dgVars>>
    \/ CsKeepSign /\ UNCHANGED <<fpVars, apVars, dgVars>>
    \/ CsCopyPlanes /\ UNCHANGED <<fpVars, apVars, dgVars>>
    \/ CsReturn /\ UNCHANGED <<fpVars, apVars, dgVars>>

SpecSubtract == InitSubtract /\ [][NextSubtract]_vars


(***************************************************************************)
(* Properties of the footprint search.                                     *)
(***************************************************************************)
\* The sources of the template above the starting threshold.
Bright ==
    { s \in scene.sources : s.peak * policy.detThreshold[2] > policy.detThreshold[1] }

GrownBox(s) ==
    [x0 |-> s.x0 - FpGrowPix(policy), x1 |-> s.x1 + FpGrowPix(policy)]

\* Every bright source has a pixel count within [fpNpixMin, fpNpixMax], its
\* grown box lies inside both images, and the grown boxes do not touch.
WellBehaved ==
    /\ \A s \in Bright :
         /\ policy.fpNpixMin <= s.x1 - s.x0 + 1
         /\ s.x1 - s.x0 + 1 <= policy.fpNpixMax
         /\ 0 <= GrownBox(s).x0
         /\ GrownBox(s).x1 < scene.itcW
         /\ GrownBox(s).x1 < scene.itncW
    /\ \A a \in Bright : \A b \in Bright :
         a = b \/ GrownBox(a).x1 < GrownBox(b).x0 \/ GrownBox(b).x1 < GrownBox(a).x0

\* The bright sources with a mask bit of either image inside the grown box.
Contaminated ==
    { s \in Bright : \E x \in scene.itcMask \cup scene.itncMask :
                        GrownBox(s).x0 <= x /\ x <= GrownBox(s).x1 }

AboveFloor == detThreshold[1] * policy.detThresholdMin[2]
                > policy.detThresholdMin[1] * detThreshold[2]

StartAboveFloor == policy.detThreshold[1] * policy.detThresholdMin[2]
                     > policy.detThresholdMin[1] * policy.detThreshold[2]

\* C2 (as claimed): the number of detection passes never exceeds
\* (detThreshold - detThresholdMin) / detThresholdScaling, computed from the
\* Policy values, so the loop cannot run on indefinitely.
C2_PassesBounded ==
    nPasses * policy.detThresholdScaling[1]
            * policy.detThreshold[2] * policy.detThresholdMin[2]
      <= (policy.detThreshold[1] * policy.detThresholdMin[2]
            - policy.detThresholdMin[1] * policy.detThreshold[2])
         * policy.detThresholdScaling[2]

\* C3 (as claimed): when the search ends with the threshold no longer above
\* the floor and the clean count below minCleanFp, it has raised the failure.
C3_Original ==
    (fpPc = "done" /\ ~AboveFloor /\ nCleanFp < policy.minCleanFp)
        => fpOutcome = "raised"

\* C3 (amended): when the search ends with the threshold no longer above the
\* floor and the clean count below minCleanFp, it raises the failure exactly
\* when the last pass accepted no footprint; with at least one footprint
\* accepted it returns that (short) list.
C3_Amended ==
    (fpPc = "done" /\ ~AboveFloor /\ nCleanFp < policy.minCleanFp)
        => /\ (fpOutcome = "raised" <=> Len(footprintListOut) = 0)
           /\ (fpOutcome = "returned" <=> Len(footprintListOut) > 0)
           /\ Len(footprintListOut) = nCleanFp

C3_Witness ==
    /\ fpPc = "done"
    /\ ~AboveFloor
    /\ 0 < nCleanFp /\ nCleanFp < policy.minCleanFp
    /\ fpOutcome = "returned"

\* C4: a detection pass starts only while the previous count is below
\* minCleanFp and the threshold is above the floor; when that condition is
\* false the search ends at once; it ends in success after a pass that
\* collected at least minCleanFp regions, and in failure when the threshold
\* is at or below the floor with no region in the list.
C4_LoopProtocol ==
    /\ [][ /\ (nPasses' # nPasses) => (nCleanFp < policy.minCleanFp /\ AboveFloor)
           /\ (fpPc = "while" /\ ~(nCleanFp < policy.minCleanFp /\ AboveFloor))
                 => (fpPc' = "done" /\ nPasses' = nPasses)
           /\ (fpPc = "done") => (fpPc' = "done") ]_vars
    /\ [](fpPc = "done" =>
            /\ (nPasses >= 1 /\ nCleanFp >= policy.minCleanFp)
                  => fpOutcome = "returned"
            /\ (~AboveFloor /\ Len(footprintListOut) = 0)
                  => fpOutcome = "raised")

C4_Witness ==
    /\ fpPc = "done"
    /\ nPasses = 2
    /\ nCleanFp >= policy.minCleanFp
    /\ fpOutcome = "returned"

\* C7 (as claimed): with K >= 1 well-behaved unmasked sources above the
\* starting threshold the search returns exactly K footprints, all found on
\* the first pass.
C7_Original ==
    (fpPc = "done" /\ WellBehaved /\ Contaminated = {} /\ Cardinality(Bright) >= 1)
        => /\ fpOutcome = "returned"
           /\ Len(footprintListOut) = Cardinality(Bright)
           /\ nPasses = 1

\* C7 (amended): with K well-behaved sources above the starting threshold,
\* the first pass, once run, counts K minus the number of sources with a mask
\* bit of either image in their grown footprint (K unmasked, K - 1 with one
\* source masked); and if no source is masked, 1 <= minCleanFp <= K and the
\* starting threshold is above the floor, the search returns exactly K
\* footprints after that single pass.
C7_Amended ==
    WellBehaved =>
      /\ (nPasses = 1 /\ (fpPc \in {"while", "done"}))
            => nCleanFp = Cardinality(Bright) - Cardinality(Contaminated)
      /\ (fpPc = "done" /\ Contaminated = {} /\ StartAboveFloor
            /\ 1 <= policy.minCleanFp /\ policy.minCleanFp <= Cardinality(Bright))
            => /\ fpOutcome = "returned"
               /\ Len(footprintListOut) = Cardinality(Bright)
               /\ nPasses = 1

C7_Witness ==
    /\ WellBehaved
    /\ Cardinality(Bright) = 2
    /\ Contaminated = {}
    /\ policy.minCleanFp = 2
    /\ fpPc = "done"
    /\ fpOutcome = "returned"
    /\ Len(footprintListOut) = 2
    /\ nPasses = 1

\* The grown footprints that pass the filters of the loop body, in order,
\* among the detections of the given pass.
RECURSIVE CleanOf(_)
CleanOf(fps) ==
    IF fps = <<>> THEN <<>>
    ELSE LET f == Head(fps)
             g == [f EXCEPT !.x0 = f.x0 - FpGrowPix(policy),
                            !.x1 = f.x1 + FpGrowPix(policy)]
             ok == /\ f.x1 - f.x0 + 1 <= policy.fpNpixMax
                   /\ 0 <= g.x0 /\ g.x1 < scene.itcW /\ g.x1 < scene.itncW
                   /\ ~\E x \in scene.itcMask \cup scene.itncMask :
                          g.x0 <= x /\ x <= g.x1
         IN  (IF ok THEN <<g>> ELSE <<>>) \o CleanOf(Tail(fps))

\* C8: every footprint of the output list was accepted in the current pass
\* at its threshold, the clean count is the length of the list, and when a
\* pass is over (and at the return) the list is exactly what that last pass
\* accepted: nothing of an earlier pass remains.
C8_RestartEachPass ==
    /\ \A k \in 1..Len(footprintListOut) :
         /\ footprintListOut[k].pass = nPasses
         /\ footprintListOut[k].thr = threshold
    /\ \A k \in 1..Len(footprintListIn) : footprintListIn[k].pass = nPasses
    /\ nCleanFp = Len(footprintListOut)
    /\ (fpPc \in {"while", "done"} /\ nPasses >= 1)
          => footprintListOut = CleanOf(footprintListIn)

C8_Witness ==
    /\ fpPc = "done"
    /\ fpOutcome = "returned"
    /\ nPasses = 2
    /\ Len(footprintListOut) = 2
    /\ Len(SelectSeq(footprintListOut, LAMBDA f : f.x0 <= 7 /\ 7 <= f.x1)) = 1

(***************************************************************************)
(* Properties of PsfMatchingFunctor::apply.                                *)
(***************************************************************************)
\* C1: the pixel walk writes only entries M[i][j] with i <= j (the rest
\* stays zero), and the matrix handed to the solver after the mirroring
\* step is exactly symmetric: M[i][j] = M[j][i] for all 0 <= i, j <= N.
C1_Symmetric ==
    /\ apPc = "walk" =>
         \A i \in Idx0 : \A j \in Idx0 : i > j => M[<<i, j>>] = 0
    /\ apPc \in {"solve", "cov"} =>
         \A i \in Idx0 : \A j \in Idx0 : M[<<i, j>>] = M[<<j, i>>]

C1_Witness ==
    /\ apPc = "solve"
    /\ M[<<0, 1>>] > 0
    /\ M[<<0, NParam - 1>>] > 0
    /\ M[<<0, 1>>] # M[<<0, NParam - 1>>]
    /\ M[<<1, 0>>] = M[<<0, 1>>]

\* C5: the stages are attempted in the order ldlt, llt, lu, eigen; a stage
\* is attempted only while no earlier stage has delivered a solution; the
\* solution kept is that of the stage attempted last, the first to succeed,
\* and no later step changes it; the cascade itself raises only in the
\* eigen stage, after the three decompositions have reported failure.
C5_Cascade ==
    /\ [](apPc \notin {"off", "idle"} =>
            /\ Len(tried) <= 4
            /\ \A k \in 1..Len(tried) :
                 tried[k] = <<"ldlt", "llt", "lu", "eigen">>[k]
            /\ apPc \in {"cov", "check", "bg"} =>
                 /\ tried # <<>>
                 /\ \A i \in Idx0 : Soln[i].nan \/ Soln[i].v = 10 * Len(tried) + i
            /\ (apPc = "done" /\ apOutcome = "raised" /\ Error2 = <<>>) =>
                 tried = <<"ldlt", "llt", "lu", "eigen">>)
    /\ [][ /\ (tried' # tried /\ apPc' # "idle" /\ apPc # "idle") =>
                /\ apPc = "solve"
                /\ Len(tried') = Len(tried) + 1
           /\ (apPc \in {"cov", "check", "bg"}) => Soln' = Soln ]_vars

C5_Witness ==
    /\ apPc = "cov"
    /\ tried = <<"ldlt", "llt", "lu">>
    /\ \A i \in Idx0 : Soln[i] = [nan |-> FALSE, v |-> 30 + i]

\* C6 (as claimed): a call of apply that returns normally yields no NaN
\* among the N+1 solution coefficients and no NaN or negative entry among
\* the N+1 diagonal entries of Error2.
C6_NoNaNReturned ==
    (apPc = "done" /\ apOutcome = "returned") =>
        \A i \in Idx0 : /\ ~Soln[i].nan
                        /\ ~Error2[i].nan
                        /\ Error2[i].v >= 0

SameCall(a, b) == a = 0 \/ b = 0 \/ a = b

\* C9 (as claimed): every call starts its walk with M and B all zero, and
\* between calls the stored kernel, kernel uncertainty, background and
\* background error never come from two different apply calls; after a
\* normal return all four are those of the call that returned.
C9_NoStaleState ==
    /\ (apPc = "walk" /\ row = StartRow /\ col = StartCol) =>
         /\ \A ij \in Idx0 \X Idx0 : M[ij] = 0
         /\ \A i \in Idx0 : B[i] = 0
    /\ apPc \in {"idle", "done"} =>
         /\ SameCall(kernel.call, kernelError.call)
         /\ SameCall(kernel.call, background.call)
         /\ SameCall(kernel.call, backgroundError.call)
         /\ SameCall(background.call, backgroundError.call)
    /\ (apPc = "done" /\ apOutcome = "returned") =>
         /\ kernel.call = callNo
         /\ kernelError.call = callNo
         /\ background.call = callNo
         /\ backgroundError.call = callNo

(***************************************************************************)
(* Properties of generateDeltaFunctionKernelSet.                           *)
(***************************************************************************)
\* The list the documentation of the function describes: width * height
\* kernels, row-major, the kernel at row * width + col with its unit pixel
\* at (col, row).
IsDeltaSet(list, w, h) ==
    /\ Len(list) = w * h
    /\ \A r \in 0..(h - 1) : \A c \in 0..(w - 1) :
         list[r * w + c + 1] =
             [width |-> w, height |-> h,
              ctrX |-> (w - 1) \div 2, ctrY |-> (h - 1) \div 2,
              px |-> c, py |-> r]

\* C10 (as claimed): with width >= 1 and height >= 1 the call returns the
\* width * height delta-function kernels in row-major order, all unit
\* pixels distinct and covering the grid; with width < 1 or height < 1 it
\* raises and returns no list.
C10_DeltaSet ==
    dgPc = "done" =>
        /\ (width >= 1 /\ height >= 1) =>
             /\ dgOutcome = "returned"
             /\ IsDeltaSet(kernelBasisList, width, height)
             /\ \A a \in 1..Len(kernelBasisList) : \A b \in 1..Len(kernelBasisList) :
                  (kernelBasisList[a].px = kernelBasisList[b].px
                     /\ kernelBasisList[a].py = kernelBasisList[b].py) => a = b
        /\ (width < 1 \/ height < 1) =>
             /\ dgOutcome = "raised"
             /\ kernelBasisList = <<>>

\* What does hold: the statement of C10 for the arguments that fit an int.
C10_WithinInt ==
    (width < Pow2(IntBits - 1) /\ height < Pow2(IntBits - 1)) => C10_DeltaSet

\* The valid window of the claim: cx <= col < W - (kw - cx) + 1 and
\* cy <= row < H - (kh - cy) + 1 for the first basis kernel.
Window ==
    { p \in (0..ImCols) \X (0..ImRows) :
        /\ basisList[1].ctrX <= p[1]
        /\ p[1] < ImCols - (basisList[1].width - basisList[1].ctrX) + 1
        /\ basisList[1].ctrY <= p[2]
        /\ p[2] < ImRows - (basisList[1].height - basisList[1].ctrY) + 1 }

RECURSIVE SumOver(_, _)
\* The sum of f[p] over the positions p of the set S.
SumOver(S, f) ==
    IF S = {} THEN 0
    ELSE LET p == CHOOSE q \in S : TRUE
         IN  f[p] + SumOver(S \ {p}, f)

\* c_k, v and nc of the claim at position p.
ConvAt(k, p) == images.conv[k + 1][p]

InvVarAt(p) == images.var[p][2] \div images.var[p][1]

\* C13: when the walk and the mirroring are over, every entry of M and B is
\* the sum over exactly the pixels of the valid window: M[i][j] of
\* c_i*c_j*v for i, j < N, M[i][N] = M[N][i] of c_i*v, M[N][N] of v,
\* B[i] of nc*c_i*v and B[N] of nc*v, each pixel counted once.
C13_NormalEquations ==
    apPc \in {"solve", "cov"} =>
        /\ \A i \in 0..(NKernel - 1) : \A j \in 0..(NKernel - 1) :
             M[<<i, j>>] =
                SumOver(Window, [p \in Window |-> ConvAt(i, p) * ConvAt(j, p) * InvVarAt(p)])
        /\ \A i \in 0..(NKernel - 1) :
             /\ M[<<i, NKernel>>] = SumOver(Window, [p \in Window |-> ConvAt(i, p) * InvVarAt(p)])
             /\ M[<<NKernel, i>>] = M[<<i, NKernel>>]
             /\ B[i] = SumOver(Window,
                          [p \in Window |-> images.itnc[p] * ConvAt(i, p) * InvVarAt(p)])
        /\ M[<<NKernel, NKernel>>] = SumOver(Window, [p \in Window |-> InvVarAt(p)])
        /\ B[NKernel] = SumOver(Window, [p \in Window |-> images.itnc[p] * InvVarAt(p)])

C13_Witness ==
    /\ apPc = "solve"
    /\ M[<<0, 1>>] > 0
    /\ M[<<0, 0>>] # M[<<1, 1>>]
    /\ B[0] > 0
    /\ B[0] # B[NKernel]
    /\ M[<<NKernel, NKernel>>] > Cardinality(Window)

C16_Packaging ==
    (apPc = "done" /\ apOutcome = "returned") =>
        /\ Len(kernel.coef) = Len(basisList)
        /\ Len(kernelError.coef) = Len(basisList)
        /\ \A k \in 0..(NKernel - 1) :
             /\ kernel.coef[k + 1] = Soln[k]
             /\ ~kernelError.coef[k + 1].nan
             /\ kernelError.coef[k + 1].v >= 0
             /\ kernelError.coef[k + 1].v * kernelError.coef[k + 1].v = Error2[k].v
        /\ background.val = Soln[NKernel]
        /\ ~backgroundError.val.nan
        /\ backgroundError.val.v >= 0
        /\ backgroundError.val.v * backgroundError.val.v = Error2[NKernel].v

C16_Witness ==
    /\ apPc = "done"
    /\ apOutcome = "returned"
    /\ callNo = 2
    /\ kernel.coef = <<Num(30), Num(31)>>
    /\ kernelError.coef = <<Num(2), Num(3)>>
    /\ background.val = Num(32)
    /\ backgroundError.val = Num(4)

(***************************************************************************)
(* Further properties of getCollectionOfFootprintsForPsfMatching.          *)
(***************************************************************************)
\* int(fpGrowKsize * max(kernelCols, kernelRows)) of the claim.
GrowthOf(p) ==
    LET big == CHOOSE k \in {p.kernelCols, p.kernelRows} :
                   k >= p.kernelCols /\ k >= p.kernelRows
    IN  CHOOSE g \in 0..(ImgW * big) :
            /\ g * p.fpGrowKsize[2] <= p.fpGrowKsize[1] * big
            /\ (g + 1) * p.fpGrowKsize[2] > p.fpGrowKsize[1] * big

\* The detected region d, grown, passes every filter of the claim.
PassesFilters(d) ==
    LET g == GrowthOf(policy)
    IN  /\ d.x1 - d.x0 + 1 <= policy.fpNpixMax
        /\ 0 <= d.x0 - g /\ d.x1 + g < scene.itcW /\ d.x1 + g < scene.itncW
        /\ \A x \in scene.itcMask : x < d.x0 - g \/ x > d.x1 + g
        /\ \A x \in scene.itncMask : x < d.x0 - g \/ x > d.x1 + g

\* C15: every footprint of the list (and so of the list returned) is a
\* region detected in the pass, of at most fpNpixMax pixels before growth,
\* grown by int(fpGrowKsize * max(kernelCols, kernelRows)), inside both
\* images and free of mask bits in both; a footprint is accepted exactly
\* when it passes all filters, and one that fails is skipped: the pass goes
\* on with the next footprint, nothing is raised and the list is unchanged.
C15_Filters ==
    /\ [](fpPc \in {"for", "while", "done"} =>
            \A n \in 1..Len(footprintListOut) :
                \E k \in 1..Len(footprintListIn) :
                    LET d == footprintListIn[k]
                        g == GrowthOf(policy)
                    IN  /\ footprintListOut[n].x0 = d.x0 - g
                        /\ footprintListOut[n].x1 = d.x1 + g
                        /\ PassesFilters(d))
    /\ [][ (fpPc = "for" /\ fpIdx' = fpIdx + 1) =>
              /\ fpPc' = "for"
              /\ fpOutcome' = fpOutcome
              /\ footprintListIn' = footprintListIn
              /\ IF PassesFilters(footprintListIn[fpIdx])
                 THEN /\ Len(footprintListOut') = Len(footprintListOut) + 1
                      /\ nCleanFp' = nCleanFp + 1
                 ELSE /\ footprintListOut' = footprintListOut
                      /\ nCleanFp' = nCleanFp ]_vars

C15_Witness ==
    /\ fpPc = "done"
    /\ fpOutcome = "returned"
    /\ Len(footprintListOut) = 2
    /\ Len(footprintListIn) = 3
    /\ GrowthOf(policy) = 1
    /\ scene.itcMask # {}

\* C17: with minCleanFp <= 0, or a starting detThreshold that is not above
\* detThresholdMin, no detection pass is run, both lists stay empty and the
\* call ends by raising, whatever the images hold; and whenever the call
\* returns normally the returned list is not empty.
C17_NoPass ==
    /\ (policy.minCleanFp <= 0
          \/ policy.detThreshold[1] * policy.detThresholdMin[2]
                <= policy.detThresholdMin[1] * policy.detThreshold[2]) =>
         /\ nPasses = 0
         /\ fpPc \in {"while", "done"}
         /\ footprintListIn = <<>>
         /\ footprintListOut = <<>>
         /\ fpPc = "done" => fpOutcome = "raised"
    /\ (fpPc = "done" /\ fpOutcome = "returned") => Len(footprintListOut) > 0

C17_Witness ==
    /\ fpPc = "done"
    /\ fpOutcome = "raised"
    /\ nPasses = 0
    /\ policy.minCleanFp = 0
    /\ RatGT(policy.detThreshold, policy.detThresholdMin)
    /\ Cardinality(scene.sources) = 3
    /\ scene.itcMask = {}

(***************************************************************************)
(* Properties of convolveAndSubtract.                                      *)
(***************************************************************************)
\* The value of the kernel K at its pixel (i, j).
KernelAt(i, j) == convolutionKernel.coef[j * convolutionKernel.basis[1].width + i + 1]

\* (K*T)(p) where the kernel fits inside the image: the sum over the kernel
\* pixels (i, j) of K(i, j) * T(p - ctr + (i, j)).
KStarT(p) ==
    LET b == convolutionKernel.basis[1]
        kpix == (0..(b.width - 1)) \X (0..(b.height - 1))
    IN  SumOver(kpix,
                [q \in kpix |-> KernelAt(q[1], q[2])
                      * imageToConvolve.image[<<p[1] - b.ctrX + q[1], p[2] - b.ctrY + q[2]>>]])

\* bg at pixel p.
BgAt(p) ==
    IF csBackground.kind = "scalar" THEN csBackground.c
    ELSE csBackground.a * p[1] + csBackground.b * p[2] + csBackground.c

\* C11: for both overloads and every pixel the returned image plane is
\* I - (K*T + bg) when invert is set and (K*T + bg) - I when it is not,
\* K*T being the image math::convolve delivered (the kernel sum wherever
\* the kernel fits inside the image).
C11_Difference ==
    csPc = "done" =>
        \A p \in Pix :
            /\ InGoodRegion(p, convolutionKernel.basis[1]) =>
                 convolveOut.image[p] = KStarT(p)
            /\ convolvedMaskedImage.image[p] =
                 IF invert
                 THEN imageToNotConvolve.image[p] - (convolveOut.image[p] + BgAt(p))
                 ELSE (convolveOut.image[p] + BgAt(p)) - imageToNotConvolve.image[p]

C11_Witness ==
    /\ csPc = "done"
    /\ invert
    /\ csOverload = "MaskedImage"
    /\ csBackground.kind = "function"
    /\ convolutionKernel.coef = <<1, 2>>
    /\ \E p \in Pix : convolvedMaskedImage.image[p] < 0
    /\ \E p \in Pix : convolveOut.image[p] > imageToConvolve.image[p]

\* C12 (as claimed): for both overloads and both values of invert the mask
\* and the variance plane of the result equal those of imageToNotConvolve,
\* and both input images are as they were at the call.
C12_PlanesOfScience ==
    csPc = "done" =>
        /\ convolvedMaskedImage.mask = imageToNotConvolve.mask
        /\ convolvedMaskedImage.variance = imageToNotConvolve.variance
        /\ <<imageToConvolve, imageToNotConvolve>> = imagesAtEntry

\* C12 (amended): the Image overload returns the mask and variance planes
\* of imageToNotConvolve; the MaskedImage overload returns, per pixel, the
\* union of the mask planes of the convolved template and of
\* imageToNotConvolve and the sum of their variances; the inputs are as
\* they were at the call, at every step.
C12_PlanesByOverload ==
    /\ csPc \notin {"off"} => <<imageToConvolve, imageToNotConvolve>> = imagesAtEntry
    /\ (csPc = "done" /\ csOverload = "Image") =>
         /\ convolvedMaskedImage.mask = imageToNotConvolve.mask
         /\ convolvedMaskedImage.variance = imageToNotConvolve.variance
    /\ (csPc = "done" /\ csOverload = "MaskedImage") =>
         \A p \in Pix :
            /\ convolvedMaskedImage.mask[p] =
                 convolveOut.mask[p] \cup imageToNotConvolve.mask[p]
            /\ convolvedMaskedImage.variance[p] =
                 convolveOut.variance[p] + imageToNotConvolve.variance[p]

C12_Witness ==
    /\ csPc = "done"
    /\ csOverload = "MaskedImage"
    /\ invert
    /\ \E p \in Pix : "BAD" \in convolvedMaskedImage.mask[p]
    /\ \E p \in Pix : "SAT" \in convolvedMaskedImage.mask[p]
    /\ \E p \in Pix : convolvedMaskedImage.variance[p] > imageToNotConvolve.variance[p]

====
